---- MODULE Spec2Model ----
(***************************************************************************)
(* The graph schema introspection service of src/mod_2.py: the type        *)
(* inferencer, the schema fetcher, the graph sampler and aggregator, the   *)
(* relationship statement generator, the single-slot aggregate file and    *)
(* the two request handlers (POST /nodes, POST /label_info).               *)
(*                                                                         *)
(* Python values are modelled with their shape:                            *)
(*   - a dict is an association list, a sequence of <<key, value>> pairs   *)
(*     with distinct keys in insertion order;                              *)
(*   - an Optional field is [isNone |-> BOOLEAN, v |-> value];             *)
(*   - a call that may raise returns [exc |-> name or "", val |-> value].  *)
(***************************************************************************)
EXTENDS Integers, Sequences, FiniteSets, TLC

VARIABLES file, last, call

vars == <<file, last, call>>

(***************************************************************************)
(* Bounds of the model.                                                    *)
(***************************************************************************)
MaxGroups == 2
MaxNodes == 2
MaxRels == 2
MaxReq == 2

\* The largest number of nodes a store holds when the sampler's limit is
\* exercised.
MaxStoreNodes == 12

(***************************************************************************)
(* Generic helpers: sequences and association lists (Python dicts).        *)
(***************************************************************************)
Range(s) == {s[i] : i \in DOMAIN s}

SeqsUpTo(S, n) == UNION {[1..k -> S] : k \in 0..n}

Take(s, n) == SubSeq(s, 1, IF Len(s) < n THEN Len(s) ELSE n)

Contains(s, x) == \E i \in DOMAIN s : s[i] = x

Keys(d) == [i \in DOMAIN d |-> d[i][1]]

HasKey(d, k) == \E i \in DOMAIN d : d[i][1] = k

Get(d, k) == d[CHOOSE i \in DOMAIN d : d[i][1] = k][2]

Put(d, k, v) ==
    IF HasKey(d, k)
    THEN [i \in DOMAIN d |-> IF d[i][1] = k THEN <<k, v>> ELSE d[i]]
    ELSE Append(d, <<k, v>>)

\* sep.join(parts)
RECURSIVE Join(_, _)
Join(sep, parts) ==
    IF parts = <<>> THEN ""
    ELSE IF Len(parts) = 1 THEN parts[1]
    ELSE parts[1] \o sep \o Join(sep, Tail(parts))

Some(x) == [isNone |-> FALSE, v |-> x]

NoneStr == [isNone |-> TRUE, v |-> ""]

NoneList == [isNone |-> TRUE, v |-> <<>>]

Ok(x) == [exc |-> "", val |-> x]

Raise(e) == [exc |-> e, val |-> <<>>]

(***************************************************************************)
(* Type Inferencer.  A value carries its Python class; isinstance follows  *)
(* the class hierarchy, in which bool is a subclass of int.                *)
(***************************************************************************)
PyValues ==
    {[cls |-> c, v |-> n] : c \in {"int", "bool", "float"}, n \in 0..1}
    \cup {[cls |-> c, v |-> 0] : c \in {"datetime", "str", "NoneType"}}

TypeTags == {"datetime", "int", "float", "boolean", "string"}

Mro(cls) ==
    CASE cls = "bool" -> {"bool", "int", "object"}
      [] cls = "datetime" -> {"datetime", "date", "object"}
      [] OTHER -> {cls, "object"}

isinstance(value, cls) == cls \in Mro(value.cls)

determine_type(value) ==
    IF isinstance(value, "datetime") THEN "datetime"
    ELSE IF isinstance(value, "int") THEN "int"
    ELSE IF isinstance(value, "float") THEN "float"
    ELSE IF isinstance(value, "bool") THEN "boolean"
    ELSE "string"

(***************************************************************************)
(* Schema Fetcher.  The store answers the schema-visualization query with  *)
(* no result, with no record, or with one record of node groups and        *)
(* relationship groups.                                                    *)
(***************************************************************************)
RECURSIVE PropsDict(_)
\* {prop["propertyKey"]: determine_type(prop["propertyValue"]) for prop in props}
PropsDict(props) ==
    IF props = <<>> THEN <<>>
    ELSE LET n == Len(props)
             p == props[n]
         IN Put(PropsDict(SubSeq(props, 1, n - 1)), p.propertyKey,
                determine_type(p.propertyValue))

\* A label the store supplies as null.
NullLabel == "<null>"

\* [label for label in labels if label is not None]
NotNone(labels) == SelectSeq(labels, LAMBDA label : label # NullLabel)

\* mod_1.py: labels_key = ":".join([label for label in labels if label is not None])
LabelsKey(labels) == Join(":", NotNone(labels))

\* A variant of the loop over labels that keys the group the way mod_1.py
\* does.
SchemaLabelsJoined(np, labels, props) == Put(np, LabelsKey(labels), PropsDict(props))

RECURSIVE SchemaLabels(_, _, _)
\* for label in labels: if label not in node_properties: node_properties[label] = {...}
SchemaLabels(np, labels, props) ==
    IF labels = <<>> THEN np
    ELSE LET label == Head(labels)
             np1 == IF HasKey(np, label) THEN np
                    ELSE Put(np, label, PropsDict(props))
         IN SchemaLabels(np1, Tail(labels), props)

RECURSIVE SchemaNodes(_, _)
\* for node in nodes: ...
SchemaNodes(np, nodes) ==
    IF nodes = <<>> THEN np
    ELSE SchemaNodes(SchemaLabels(np, Head(nodes).labels, Head(nodes).properties),
                     Tail(nodes))

SchemaRels(relationships) ==
    [i \in DOMAIN relationships |->
        [type |-> relationships[i].type,
         start_node_labels |-> relationships[i].startNode,
         end_node_labels |-> relationships[i].endNode]]

\* The value fetch_schema returns: an empty dict on the two degenerate
\* answers, the pair (node_properties, schema_relationships) otherwise.
fetch_schema(answer) ==
    IF answer.kind = "raise" THEN Raise("ServiceUnavailable")
    ELSE IF answer.kind = "no_result" THEN Ok([pytype |-> "dict", items |-> <<>>])
    ELSE IF answer.kind = "no_record" THEN Ok([pytype |-> "dict", items |-> <<>>])
    ELSE Ok([pytype |-> "tuple",
             items |-> <<SchemaNodes(<<>>, answer.nodes),
                         SchemaRels(answer.relationships)>>])

RECURSIVE SchemaNodesMod1(_, _)
\* mod_1.py: for node in nodes: node_properties[labels_key] = {...}
SchemaNodesMod1(np, nodes) ==
    IF nodes = <<>> THEN np
    ELSE SchemaNodesMod1(Put(np, LabelsKey(Head(nodes).labels),
                             PropsDict(Head(nodes).properties)),
                         Tail(nodes))

\* fetch_schema of mod_1.py: the dict node_properties, empty on the two
\* degenerate answers.
fetch_schema_mod_1(answer) ==
    IF answer.kind = "raise" THEN Raise("ServiceUnavailable")
    ELSE IF answer.kind = "no_result" THEN Ok([pytype |-> "dict", items |-> <<>>])
    ELSE IF answer.kind = "no_record" THEN Ok([pytype |-> "dict", items |-> <<>>])
    ELSE Ok([pytype |-> "dict", items |-> SchemaNodesMod1(<<>>, answer.nodes)])

(***************************************************************************)
(* Graph Sampler.  The store holds nodes, each with its labels, its        *)
(* properties and its outgoing relationships.  The sample query returns    *)
(* one record per node: OPTIONAL MATCH binds r to null for a node without  *)
(* an outgoing relationship, and collect(DISTINCT {...}) collects the map  *)
(* built from that row, a map whose three entries are null.                *)
(***************************************************************************)
SampleLimit == 10

RECURSIVE Distinct(_)
Distinct(s) ==
    IF s = <<>> THEN <<>>
    ELSE LET n == Len(s)
             d == Distinct(SubSeq(s, 1, n - 1))
         IN IF Contains(d, s[n]) THEN d ELSE Append(d, s[n])

NullRelMap == [type |-> NoneStr, start_node_labels |-> NoneList,
               end_node_labels |-> NoneList]

RelMap(n, r) == [type |-> Some(r.type), start_node_labels |-> Some(n.labels),
                 end_node_labels |-> Some(r.end_labels)]

\* The rows of MATCH (n) OPTIONAL MATCH (n)-[r]->(m) for one node n, each
\* mapped to {type: type(r), start_node_labels: ..., end_node_labels: ...}.
RowMaps(n) ==
    IF n.out = <<>> THEN <<NullRelMap>>
    ELSE [i \in DOMAIN n.out |-> RelMap(n, n.out[i])]

SampleRecord(n) ==
    [labels |-> n.labels,
     prop_keys |-> Keys(n.props),
     prop_values |-> [i \in DOMAIN n.props |-> n.props[i][2]],
     relationships |-> Distinct(RowMaps(n))]

\* A variant whose query has no LIMIT clause.
SampleQueryNoLimit(graph) ==
    [i \in DOMAIN graph |-> SampleRecord(graph[i])]

SampleQuery(graph) ==
    Take([i \in DOMAIN graph |-> SampleRecord(graph[i])], SampleLimit)

(***************************************************************************)
(* Aggregator: the body of fetch_nodes_and_relationships_from_neo4j over   *)
(* the records of the sample query.                                        *)
(***************************************************************************)
EmptyDetails == [properties |-> <<>>, relationships |-> <<>>]

\* Relationship(type=rel.get('type'), start_node_labels=..., end_node_labels=...)
Relationship(rel) ==
    [type |-> rel.type, start_node_labels |-> rel.start_node_labels,
     end_node_labels |-> rel.end_node_labels]

RECURSIVE MergePropsKeepFirst(_, _, _)
\* A variant that keeps the type a key was first given (setdefault).
MergePropsKeepFirst(properties, prop_keys, prop_values) ==
    IF prop_keys = <<>> \/ prop_values = <<>> THEN properties
    ELSE MergePropsKeepFirst(
             IF HasKey(properties, Head(prop_keys)) THEN properties
             ELSE Put(properties, Head(prop_keys), determine_type(Head(prop_values))),
             Tail(prop_keys), Tail(prop_values))

RECURSIVE MergeProps(_, _, _)
\* for key, value in zip(prop_keys, prop_values): properties[key] = determine_type(value)
MergeProps(properties, prop_keys, prop_values) ==
    IF prop_keys = <<>> \/ prop_values = <<>> THEN properties
    ELSE MergeProps(Put(properties, Head(prop_keys), determine_type(Head(prop_values))),
                    Tail(prop_keys), Tail(prop_values))

RECURSIVE AddRelsOnce(_, _)
\* A variant that skips a descriptor the label already holds.
AddRelsOnce(relationships, rels) ==
    IF rels = <<>> THEN relationships
    ELSE AddRelsOnce(IF Contains(relationships, Relationship(Head(rels)))
                     THEN relationships
                     ELSE Append(relationships, Relationship(Head(rels))),
                     Tail(rels))

AddRels(relationships, rels) ==
    relationships \o [i \in DOMAIN rels |-> Relationship(rels[i])]

\* A variant that creates a label's entry only when a record carries it.
LabelsDictInitLazy(node_properties) == <<>>

\* {label: {"properties": {}, "relationships": []} for label in node_properties.keys()}
LabelsDictInit(node_properties) ==
    [i \in DOMAIN node_properties |-> <<node_properties[i][1], EmptyDetails>>]

RECURSIVE FoldLabelsAdding(_, _, _)
\* A variant that gives a label the schema lacks an entry of its own
\* (labels_dict.setdefault(label, ...)).
FoldLabelsAdding(labels_dict, labels, record) ==
    IF labels = <<>> THEN labels_dict
    ELSE LET label == Head(labels)
             old == IF HasKey(labels_dict, label) THEN Get(labels_dict, label)
                    ELSE EmptyDetails
             d1 == Put(labels_dict, label,
                       [properties |-> MergeProps(old.properties, record.prop_keys,
                                                  record.prop_values),
                        relationships |-> AddRels(old.relationships,
                                                  record.relationships)])
         IN FoldLabelsAdding(d1, Tail(labels), record)

RECURSIVE FoldLabels(_, _, _)
\* for label in labels: if label in labels_dict: merge properties, add relationships
FoldLabels(labels_dict, labels, record) ==
    IF labels = <<>> THEN labels_dict
    ELSE LET label == Head(labels)
             d1 == IF HasKey(labels_dict, label)
                   THEN LET old == Get(labels_dict, label)
                        IN Put(labels_dict, label,
                               [properties |-> MergeProps(old.properties, record.prop_keys,
                                                          record.prop_values),
                                relationships |-> AddRels(old.relationships,
                                                          record.relationships)])
                   ELSE labels_dict
         IN FoldLabels(d1, Tail(labels), record)

RECURSIVE FoldRecords(_, _)
\* for record in result: ...
FoldRecords(labels_dict, records) ==
    IF records = <<>> THEN labels_dict
    ELSE FoldRecords(FoldLabels(labels_dict, Head(records).labels, Head(records)),
                     Tail(records))

\* node_labels = list(labels_dict.keys())
NodeLabels(labels_dict) == Keys(labels_dict)

\* The dict fetch_nodes_and_relationships_from_neo4j returns.
Aggregate(node_properties, records) ==
    LET labels_dict == FoldRecords(LabelsDictInit(node_properties), records)
    IN [pytype |-> "dict",
        node_labels |-> NodeLabels(labels_dict),
        label_info |-> labels_dict]

fetch_nodes_and_relationships_from_neo4j(node_properties, answer) ==
    IF answer.kind = "raise" THEN Raise("ServiceUnavailable")
    ELSE Ok(Aggregate(node_properties, SampleQuery(answer.graph)))

(***************************************************************************)
(* Relationship Statement Generator.                                       *)
(***************************************************************************)
\* f"{x}" of an Optional[str]: None is rendered as the text None.
Format(opt) == IF opt.isNone THEN "None" ELSE opt.v

\* any(lbl in labels for lbl in xs): iterating None raises TypeError.
AnyIn(labels, xs) ==
    IF xs.isNone THEN Raise("TypeError")
    ELSE Ok(\E i \in DOMAIN xs.v : Contains(labels, xs.v[i]))

Statement(rel) ==
    "(" \o Join(":", rel.start_node_labels.v) \o ")-[:" \o Format(rel.type)
        \o "]->(" \o Join(":", rel.end_node_labels.v) \o ")"

RECURSIVE GenLoop(_, _, _)
\* for rel in relationships: if any(...) and any(...): append the statement
GenLoop(labels, relationships, acc) ==
    IF relationships = <<>> THEN Ok(acc)
    ELSE LET rel == Head(relationships)
             a == AnyIn(labels, rel.start_node_labels)
             b == AnyIn(labels, rel.end_node_labels)
         IN IF a.exc # "" THEN a
            ELSE IF ~a.val THEN GenLoop(labels, Tail(relationships), acc)
            ELSE IF b.exc # "" THEN b
            ELSE IF ~b.val THEN GenLoop(labels, Tail(relationships), acc)
            ELSE GenLoop(labels, Tail(relationships), Append(acc, Statement(rel)))

generate_relationship_statements(labels, relationships) ==
    GenLoop(labels, relationships, <<>>)

(***************************************************************************)
(* Aggregate Store: the file fetched_data.json.  Its content is missing,   *)
(* empty (opened for writing and nothing written) or a JSON document.      *)
(***************************************************************************)
FileMissing == [kind |-> "missing", doc |-> <<>>]

FileEmpty == [kind |-> "empty", doc |-> <<>>]

FileJson(doc) == [kind |-> "json", doc |-> doc]

\* data.dict() of a NodeResponse: the plain document json.dump writes.
ToDoc(data) == [node_labels |-> data.node_labels, label_info |-> data.label_info]

\* NodeResponse(**data): the validated model built from a loaded document.
NodeResponse(doc) ==
    [pytype |-> "NodeResponse", node_labels |-> doc.node_labels,
     label_info |-> doc.label_info]

\* A variant that serialises the plain dict and opens the file with "a":
\* the document is added after whatever the file already holds.
dump_data_to_file_append(data, f, fs_ok) ==
    IF ~fs_ok THEN [exc |-> "OSError", file |-> f, events |-> <<>>]
    ELSE [exc |-> "",
          file |-> [kind |-> IF f.kind = "json" \/ f.kind = "garbled"
                             THEN "garbled" ELSE "json",
                    doc |-> ToDoc(data)],
          events |-> <<"file_write">>]

\* open("w") truncates the file before data.dict() is evaluated; only a
\* pydantic model has a dict() method.
dump_data_to_file(data, f, fs_ok) ==
    IF ~fs_ok THEN [exc |-> "OSError", file |-> f, events |-> <<>>]
    ELSE IF data.pytype # "NodeResponse"
    THEN [exc |-> "AttributeError", file |-> FileEmpty, events |-> <<"file_truncate">>]
    ELSE [exc |-> "", file |-> FileJson(ToDoc(data)),
          events |-> <<"file_truncate", "file_write">>]

load_data_from_file(f) ==
    IF f.kind = "missing" THEN Raise("FileNotFoundError")
    ELSE IF f.kind = "empty" THEN Raise("JSONDecodeError")
    ELSE Ok(NodeResponse(f.doc))

(***************************************************************************)
(* POST /nodes: get_nodes.  req holds what the environment answers during  *)
(* this cycle: whether the driver can be created, the answer to the schema *)
(* query, the answer to the sample query, whether the file can be opened.  *)
(***************************************************************************)
\* node_properties, _ = <value>: unpacking iterates the value, which must
\* yield exactly two items (an empty dict yields none).
Unpack2(value) ==
    IF Len(value.items) = 2 THEN Ok(value.items) ELSE Raise("ValueError")

SchemaEvents(answer) ==
    <<"schema_session_open">>
    \o (CASE answer.kind = "raise" -> <<"schema_query_failed">>
          [] answer.kind = "no_result" -> <<"schema_no_result">>
          [] answer.kind = "no_record" -> <<"schema_no_record">>
          [] OTHER -> <<"schema_ok">>)
    \o <<"schema_session_close">>

SampleEvents(answer) ==
    <<"sample_session_open">>
    \o (IF answer.kind = "raise" THEN <<"sample_query_failed">> ELSE <<"sample_ok">>)
    \o <<"sample_session_close">>

Exit(exc, ret, f, events, driver) ==
    [exc |-> exc, ret |-> ret, file |-> f, events |-> events, driver |-> driver]

\* A variant that, when the sample query fails, persists the aggregate of
\* an empty sample instead.
TryBodyFallback(req, f) ==
    IF ~req.cred_ok
    THEN Exit("ConfigurationError", <<>>, f, <<"driver_failed">>, "unbound")
    ELSE
    LET e1 == <<"driver_open">> \o SchemaEvents(req.schema)
        s == fetch_schema(req.schema)
    IN IF s.exc # "" THEN Exit(s.exc, <<>>, f, e1, "open")
       ELSE
       LET u == Unpack2(s.val)
       IN IF u.exc # "" THEN Exit(u.exc, <<>>, f, e1, "open")
          ELSE
          LET e2 == e1 \o SampleEvents(req.sample)
              n == fetch_nodes_and_relationships_from_neo4j(u.val[1], req.sample)
              data == IF n.exc # "" THEN Aggregate(u.val[1], <<>>) ELSE n.val
              d == dump_data_to_file(data, f, req.fs_ok)
          IN IF n.exc # "" THEN Exit(n.exc, <<>>, d.file, e2 \o d.events, "open")
             ELSE IF d.exc # "" THEN Exit(d.exc, <<>>, d.file, e2 \o d.events, "open")
             ELSE Exit("", ToDoc(n.val), d.file, e2 \o d.events, "open")

\* The try block of get_nodes.
TryBody(req, f) ==
    IF ~req.cred_ok
    THEN Exit("ConfigurationError", <<>>, f, <<"driver_failed">>, "unbound")
    ELSE
    LET e1 == <<"driver_open">> \o SchemaEvents(req.schema)
        s == fetch_schema(req.schema)
    IN IF s.exc # "" THEN Exit(s.exc, <<>>, f, e1, "open")
       ELSE
       LET u == Unpack2(s.val)
       IN IF u.exc # "" THEN Exit(u.exc, <<>>, f, e1, "open")
          ELSE
          LET e2 == e1 \o SampleEvents(req.sample)
              n == fetch_nodes_and_relationships_from_neo4j(u.val[1], req.sample)
          IN IF n.exc # "" THEN Exit(n.exc, <<>>, f, e2, "open")
             ELSE
             LET d == dump_data_to_file(n.val, f, req.fs_ok)
             IN IF d.exc # "" THEN Exit(d.exc, <<>>, d.file, e2 \o d.events, "open")
                ELSE Exit("", ToDoc(n.val), d.file, e2 \o d.events, "open")

\* The finally block: driver.close() on a name that was never bound
\* raises UnboundLocalError.
Finally(driver) ==
    IF driver = "unbound" THEN [exc |-> "UnboundLocalError", driver |-> "unbound",
                                events |-> <<>>]
    ELSE [exc |-> "", driver |-> "closed", events |-> <<"driver_close">>]

\* except Exception as e: raise HTTPException(status_code=500, detail=str(e));
\* an exception leaving the finally block replaces it and reaches the
\* server unhandled, which answers 500 as well.
get_nodes(req, f) ==
    LET t == TryBody(req, f)
        fin == Finally(t.driver)
    IN [op |-> "get_nodes",
        status |-> IF t.exc = "" /\ fin.exc = "" THEN 200 ELSE 500,
        detail |-> IF fin.exc # "" THEN "Internal Server Error" ELSE t.exc,
        body |-> IF t.exc = "" /\ fin.exc = "" THEN t.ret ELSE <<>>,
        events |-> t.events \o fin.events,
        try_exc |-> t.exc,
        cleanup_exc |-> fin.exc,
        driver |-> fin.driver,
        file |-> t.file]

(***************************************************************************)
(* POST /label_info: get_label_info.                                       *)
(***************************************************************************)
RECURSIVE LabelLoop(_, _, _, _)
\* for label in labels: if label not in label_info: continue; ...
LabelLoop(labels, rest, label_info, acc) ==
    IF rest = <<>> THEN Ok(acc)
    ELSE LET label == Head(rest)
         IN IF ~HasKey(label_info, label)
            THEN LabelLoop(labels, Tail(rest), label_info, acc)
            ELSE LET details == Get(label_info, label)
                     g == generate_relationship_statements(labels, details.relationships)
                 IN IF g.exc # "" THEN g
                    ELSE LabelLoop(labels, Tail(rest), label_info,
                                   Append(acc, [label |-> label,
                                                properties |-> details.properties,
                                                relationships |-> g.val]))

get_label_info(labels, f) ==
    LET data == load_data_from_file(f)
        r == IF data.exc # "" THEN data
             ELSE LabelLoop(labels, labels, data.val.label_info, <<>>)
    IN [op |-> "get_label_info",
        status |-> IF r.exc = "" THEN 200 ELSE 500,
        detail |-> r.exc,
        body |-> r.val,
        events |-> <<>>,
        try_exc |-> r.exc,
        cleanup_exc |-> "",
        driver |-> "none",
        file |-> f]

(***************************************************************************)
(* The inputs the environment can supply.                                  *)
(***************************************************************************)
Labels == {"P", "C"}

LabelLists == {<<"P">>, <<"C">>, <<"P", "C">>}

StrValue == [cls |-> "str", v |-> 0]

IntValue == [cls |-> "int", v |-> 1]

Groups ==
    {[labels |-> ls, properties |-> ps] :
        ls \in LabelLists,
        ps \in {<<>>, <<[propertyKey |-> "k", propertyValue |-> StrValue]>>}}

SchemaRelGroups ==
    {<<>>, <<[type |-> "R", startNode |-> <<"P">>, endNode |-> <<"C">>]>>}

SchemaFailures ==
    {[kind |-> k, nodes |-> <<>>, relationships |-> <<>>] :
        k \in {"raise", "no_result", "no_record"}}

SchemaRecords(n) ==
    {[kind |-> "record", nodes |-> ns, relationships |-> rs] :
        ns \in SeqsUpTo(Groups, n), rs \in SchemaRelGroups}

SchemaAnswers == SchemaFailures \cup SchemaRecords(MaxGroups)

\* Node groups one of whose labels is null.
NullGroups ==
    {[labels |-> ls, properties |-> <<>>] :
        ls \in {<<NullLabel, "P">>, <<"P", NullLabel, "C">>}}

\* The answers fetch_schema is applied to on its own.
SchemaAnswersWithNull ==
    SchemaAnswers
    \cup {[kind |-> "record", nodes |-> ns, relationships |-> <<>>] :
            ns \in SeqsUpTo(Groups \cup NullGroups, MaxGroups)}

Edges == {[type |-> "R", end_labels |-> <<"C">>]}

OutLists == {<<>>} \cup {<<e>> : e \in Edges} \cup {<<e, e>> : e \in Edges}

PropKeys == {"k"}

NodeProps ==
    {<<>>} \cup {<< <<k, v>> >> : k \in PropKeys, v \in {IntValue, StrValue}}

GraphNodes ==
    {[labels |-> ls, props |-> ps, out |-> o] :
        ls \in LabelLists, ps \in NodeProps, o \in OutLists}

Graphs == SeqsUpTo(GraphNodes, MaxNodes)

\* The node_properties dicts fetch_schema can hand to the aggregator.
NodePropsSet == {fetch_schema(a).val.items[1] : a \in SchemaRecords(MaxGroups)}

\* The service is exercised on a catalogue of store contents: schema
\* records of at most one node group or of two bare single-label groups,
\* and graphs of at most two nodes without properties.
BareGroups == {g \in Groups : Len(g.labels) = 1 /\ g.properties = <<>>}

ServiceGroupLists ==
    {<<>>} \cup {<<g>> : g \in Groups} \cup {<<g, h>> : g \in BareGroups, h \in BareGroups}

ServiceRecords ==
    {[kind |-> "record", nodes |-> ns,
      relationships |-> <<[type |-> "R", startNode |-> <<"P">>, endNode |-> <<"C">>]>>] :
        ns \in ServiceGroupLists}

ServiceNodes ==
    {n \in GraphNodes : /\ n.props = <<>>
                        /\ Len(n.labels) = 1
                        /\ Len(n.out) <= 1
                        /\ (n.labels = <<"C">> => n.out = <<>>)}

ServiceGraphs ==
    {<<>>} \cup {<<n>> : n \in ServiceNodes}
    \cup {<<n, m>> : n \in ServiceNodes, m \in ServiceNodes}

NoSample == [kind |-> "ok", graph |-> <<>>]

NoSchema == [kind |-> "record", nodes |-> <<>>, relationships |-> <<>>]

Request(c, a, b, o) == [cred_ok |-> c, schema |-> a, sample |-> b, fs_ok |-> o]

\* What the environment answers during one cycle; the answers of the steps
\* that follow a failed step are never asked for.
NodesRequests ==
    {Request(FALSE, NoSchema, NoSample, TRUE)}
    \cup {Request(TRUE, a, NoSample, TRUE) : a \in SchemaFailures}
    \cup {Request(TRUE, a, [kind |-> "raise", graph |-> <<>>], TRUE) : a \in ServiceRecords}
    \cup {Request(TRUE, a, [kind |-> "ok", graph |-> g], o) :
            a \in ServiceRecords, g \in ServiceGraphs, o \in BOOLEAN}

RequestLabels == Labels \cup {"X"}

LabelRequests == SeqsUpTo(RequestLabels, MaxReq)

\* Aggregates a previous deployment may have left in fetched_data.json.
SeedDocs ==
    {ToDoc(Aggregate(fetch_schema(a).val.items[1], SampleQuery(g))) :
        a \in {r \in ServiceRecords : Len(r.nodes) = 1 /\ Len(r.nodes[1].labels) = 2},
        g \in ServiceGraphs}

(***************************************************************************)
(* The service: one handler runs at a time (both handlers are coroutines   *)
(* without a suspension point).  last is the record of the latest run.     *)
(***************************************************************************)
NoRun ==
    [op |-> "none", status |-> 0, detail |-> "", body |-> <<>>, events |-> <<>>,
     try_exc |-> "", cleanup_exc |-> "", driver |-> "none", file |-> FileMissing]

NoCall == [fn |-> "none", args |-> <<>>, ret |-> <<>>]

Init ==
    /\ file \in {FileMissing} \cup {FileJson(d) : d \in SeedDocs}
    /\ last = [run |-> NoRun, req |-> <<>>, before |-> file]
    /\ call = NoCall

GetNodes ==
    \E req \in NodesRequests :
        LET run == get_nodes(req, file)
        IN /\ file' = run.file
           /\ last' = [run |-> run, req |-> <<>>, before |-> file]
           /\ UNCHANGED call

GetLabelInfo ==
    \E labels \in LabelRequests :
        LET run == get_label_info(labels, file)
        IN /\ file' = run.file
           /\ last' = [run |-> run, req |-> labels, before |-> file]
           /\ UNCHANGED call

Next == GetNodes \/ GetLabelInfo

Spec == Init /\ [][Next]_vars

(***************************************************************************)
(* The components on their own: each action applies one function of the    *)
(* source to inputs drawn from the bounded sets and records the call; a    *)
(* behaviour is one call.                                                  *)
(***************************************************************************)
Patterns ==
    {Relationship(NullRelMap)}
    \cup {Relationship([type |-> Some("R"), start_node_labels |-> Some(a),
                        end_node_labels |-> Some(b)]) :
            a \in LabelLists, b \in LabelLists}

InitFn ==
    /\ file = FileMissing
    /\ last = [run |-> NoRun, req |-> <<>>, before |-> FileMissing]
    /\ call = NoCall

ApplyDetermineType ==
    /\ call.fn = "none"
    /\ \E value \in PyValues :
          call' = [fn |-> "determine_type", args |-> <<value>>,
                   ret |-> determine_type(value)]
    /\ UNCHANGED <<file, last>>

ApplyFetchSchema ==
    /\ call.fn = "none"
    /\ \E answer \in SchemaAnswersWithNull :
          call' = [fn |-> "fetch_schema", args |-> <<answer>>,
                   ret |-> fetch_schema(answer)]
    /\ UNCHANGED <<file, last>>

ApplyFetchSchemaMod1 ==
    /\ call.fn = "none"
    /\ \E answer \in SchemaAnswersWithNull :
          call' = [fn |-> "fetch_schema_mod_1", args |-> <<answer>>,
                   ret |-> fetch_schema_mod_1(answer)]
    /\ UNCHANGED <<file, last>>

ApplyFetchNodes ==
    /\ call.fn = "none"
    /\ \E node_properties \in NodePropsSet, graph \in Graphs :
          call' = [fn |-> "fetch_nodes", args |-> <<node_properties, graph>>,
                   ret |-> fetch_nodes_and_relationships_from_neo4j(
                               node_properties, [kind |-> "ok", graph |-> graph])]
    /\ UNCHANGED <<file, last>>

\* The same function against a store of up to MaxStoreNodes like nodes.
ApplyFetchNodesLarge ==
    /\ call.fn = "none"
    /\ \E node_properties \in NodePropsSet, node \in GraphNodes, n \in 0..MaxStoreNodes :
          LET graph == [i \in 1..n |-> node]
          IN call' = [fn |-> "fetch_nodes", args |-> <<node_properties, graph>>,
                      ret |-> fetch_nodes_and_relationships_from_neo4j(
                                  node_properties, [kind |-> "ok", graph |-> graph])]
    /\ UNCHANGED <<file, last>>

ApplyGenerate ==
    /\ call.fn = "none"
    /\ \E labels \in LabelRequests, relationships \in SeqsUpTo(Patterns, MaxRels) :
          call' = [fn |-> "generate", args |-> <<labels, relationships>>,
                   ret |-> generate_relationship_statements(labels, relationships)]
    /\ UNCHANGED <<file, last>>

NextFn ==
    \/ ApplyDetermineType
    \/ ApplyFetchSchema
    \/ ApplyFetchSchemaMod1
    \/ ApplyFetchNodes
    \/ ApplyFetchNodesLarge
    \/ ApplyGenerate

FnSpec == InitFn /\ [][NextFn]_vars

(***************************************************************************)
(* Two refreshes in a row against a store that does not change between     *)
(* them: the second cycle is given the answers the first one was given.    *)
(***************************************************************************)
RefreshOnce ==
    /\ last.run.op = "none"
    /\ \E req \in NodesRequests :
          LET run == get_nodes(req, file)
          IN /\ file' = run.file
             /\ last' = [run |-> run, req |-> req, before |-> file]
    /\ UNCHANGED call

RefreshAgain ==
    /\ last.run.op = "get_nodes"
    /\ call.fn = "none"
    /\ LET run == get_nodes(last.req, file)
       IN /\ file' = run.file
          /\ call' = [fn |-> "get_nodes_again", args |-> <<file>>, ret |-> run]
    /\ UNCHANGED last

NextTwice == RefreshOnce \/ RefreshAgain

TwiceSpec == Init /\ [][NextTwice]_vars

(***************************************************************************)
(* Properties.                                                             *)
(***************************************************************************)
Run == last.run

Happened(e) == Contains(Run.events, e)

Count(events, e) == Cardinality({i \in DOMAIN events : events[i] = e})

\* C1: a refresh whose schema query and sample query both succeed (and
\* whose file could be opened) completes successfully, and loading the
\* file afterwards yields exactly the aggregate the refresh returned.
C1_RefreshPersistsWhatItReturns ==
    (Run.op = "get_nodes" /\ Happened("schema_ok") /\ Happened("sample_ok")
        /\ Happened("file_truncate"))
    => /\ Run.status = 200
       /\ load_data_from_file(file).exc = ""
       /\ ToDoc(load_data_from_file(file).val) = Run.body

\* C2: whatever ran before it, a label-info read finds the file either
\* absent (never written) or holding a complete aggregate, never an empty
\* or partly written one.
C2_ReaderSeesCompleteAggregate ==
    Run.op = "get_label_info" => last.before.kind \in {"missing", "json"}

\* C3: determine_type returns exactly one of the five tags, and for a
\* boolean value the tag is boolean.
C3_BooleanIsNeverInt ==
    call.fn = "determine_type"
    => /\ call.ret \in TypeTags
       /\ (call.args[1].cls = "bool" => call.ret = "boolean")

\* C4: when the schema query returns no result or no record, the fetch
\* cycle does not fail and returns the aggregate with empty node_labels
\* and empty label_info.
C4_EmptySchemaGivesEmptyAggregate ==
    (Run.op = "get_nodes" /\ (Happened("schema_no_result") \/ Happened("schema_no_record")))
    => /\ Run.status = 200
       /\ Run.body = [node_labels |-> <<>>, label_info |-> <<>>]

\* C5: aggregating an empty sample yields node_labels equal to the schema's
\* labels in schema order, and label_info mapping each of them to empty
\* properties and no relationships.
C5_EmptySampleKeepsSchemaLabels ==
    (call.fn = "fetch_nodes" /\ call.args[2] = <<>>)
    => /\ call.ret.exc = ""
       /\ call.ret.val.node_labels = [i \in DOMAIN call.args[1] |-> call.args[1][i][1]]
       /\ call.ret.val.label_info =
            [i \in DOMAIN call.args[1] |->
                <<call.args[1][i][1], [properties |-> <<>>, relationships |-> <<>>]>>]

\* C5 witness: an empty sample aggregated against a schema of two labels.
C5_Witness ==
    /\ call.fn = "fetch_nodes"
    /\ call.args[2] = <<>>
    /\ Len(call.args[1]) = 2
    /\ call.ret.exc = ""
    /\ Len(call.ret.val.node_labels) = 2

\* A pattern is kept when one of its start labels and one of its end
\* labels are requested; a pattern without labels has none requested.
Kept(labels, rel) ==
    /\ \E l \in Range(rel.start_node_labels.v) : l \in Range(labels)
    /\ \E l \in Range(rel.end_node_labels.v) : l \in Range(labels)

ExpectedStatements(labels, relationships) ==
    LET kept == SelectSeq(relationships, LAMBDA rel : Kept(labels, rel))
    IN [i \in DOMAIN kept |->
           "(" \o Join(":", kept[i].start_node_labels.v) \o ")-[:" \o kept[i].type.v
               \o "]->(" \o Join(":", kept[i].end_node_labels.v) \o ")"]

\* C6: for every label list and pattern sequence the generator returns,
\* without error, the statements of the kept patterns in input order and
\* with duplicates.
C6_StatementsAreTheKeptPatterns ==
    call.fn = "generate"
    => /\ call.ret.exc = ""
       /\ call.ret.val = ExpectedStatements(call.args[1], call.args[2])

\* C6 on patterns whose label lists are present (no field is null): the
\* generator returns exactly the statements of the kept patterns.
Labelled(relationships) ==
    \A i \in DOMAIN relationships :
        /\ ~relationships[i].type.isNone
        /\ ~relationships[i].start_node_labels.isNone
        /\ ~relationships[i].end_node_labels.isNone

C6_OnLabelledPatterns ==
    (call.fn = "generate" /\ Labelled(call.args[2]))
    => /\ call.ret.exc = ""
       /\ call.ret.val = ExpectedStatements(call.args[1], call.args[2])

\* C7: no label's relationships hold a pattern with a null type or null
\* endpoint labels, and a sample whose nodes all lack an outgoing
\* relationship leaves every label's relationships empty.
C7_NodeWithoutRelationshipAddsNoPattern ==
    call.fn = "fetch_nodes"
    => /\ call.ret.exc = ""
       /\ \A i \in DOMAIN call.ret.val.label_info :
            LET rels == call.ret.val.label_info[i][2].relationships
            IN /\ \A j \in DOMAIN rels :
                    /\ ~rels[j].type.isNone
                    /\ ~rels[j].start_node_labels.isNone
                    /\ ~rels[j].end_node_labels.isNone
               /\ ((\A k \in DOMAIN call.args[2] : call.args[2][k].out = <<>>)
                      => rels = <<>>)

\* The answer of a fetch cycle whose schema query fails to reach the store.
ConnectionFailure ==
    get_nodes(Request(TRUE, [kind |-> "raise", nodes |-> <<>>, relationships |-> <<>>],
                      NoSample, TRUE), FileMissing)

\* C8: a label-info request against a missing or unreadable file fails,
\* with a status other than the one a store connection failure gives.
C8_NotFoundDiffersFromConnectionFailure ==
    (Run.op = "get_label_info" /\ last.before.kind \in {"missing", "empty"})
    => /\ Run.status # 200
       /\ Run.status # ConnectionFailure.status

\* C9: on every exit path of a fetch cycle the cleanup raises nothing, no
\* driver is left open and every session opened was closed.
C9_CleanupOnEveryExitPath ==
    Run.op = "get_nodes"
    => /\ Run.cleanup_exc = ""
       /\ Run.driver # "open"
       /\ Count(Run.events, "schema_session_open") = Count(Run.events, "schema_session_close")
       /\ Count(Run.events, "sample_session_open") = Count(Run.events, "sample_session_close")

ExpectedLabelInfo(labels, label_info) ==
    LET present == SelectSeq(labels, LAMBDA l : HasKey(label_info, l))
    IN [i \in DOMAIN present |->
           [label |-> present[i],
            properties |-> Get(label_info, present[i]).properties,
            relationships |->
                ExpectedStatements(labels, Get(label_info, present[i]).relationships)]]

\* C10: against every persisted aggregate a label-info request succeeds
\* and returns, in request order, one entry per requested label that is a
\* key of label_info, with the statements of that label's patterns
\* filtered against the whole request.
C10_LabelInfoOfPersistedAggregate ==
    (Run.op = "get_label_info" /\ last.before.kind = "json")
    => /\ Run.status = 200
       /\ Run.body = ExpectedLabelInfo(last.req, last.before.doc.label_info)

\* C10 on persisted aggregates whose patterns all have their label lists:
\* the request succeeds with the expected entries.
C10_OnLabelledPatterns ==
    (Run.op = "get_label_info" /\ last.before.kind = "json"
        /\ \A i \in DOMAIN last.before.doc.label_info :
              Labelled(last.before.doc.label_info[i][2].relationships))
    => /\ Run.status = 200
       /\ Run.body = ExpectedLabelInfo(last.req, last.before.doc.label_info)

RECURSIVE DescriptorCount(_, _, _)
\* How many relationship descriptors the first limit nodes of graph that
\* carry label hand to the aggregator.
DescriptorCount(label, graph, limit) ==
    IF graph = <<>> \/ limit = 0 THEN 0
    ELSE (IF Contains(Head(graph).labels, label)
          THEN Len(SampleRecord(Head(graph)).relationships) ELSE 0)
         + DescriptorCount(label, Tail(graph), limit - 1)

\* C12: whatever the number of nodes in the store, the sample never fails
\* and the aggregate is built from the first 10 records at most: every
\* label holds the descriptors of the first 10 nodes and of no other.
C12_AtMostTenRecordsFolded ==
    call.fn = "fetch_nodes"
    => /\ call.ret.exc = ""
       /\ \A i \in DOMAIN call.ret.val.label_info :
             Len(call.ret.val.label_info[i][2].relationships)
                 = DescriptorCount(call.ret.val.label_info[i][1], call.args[2],
                                   SampleLimit)

\* A store of more than 10 nodes, all carrying a schema label, sampled
\* without error: the label holds 10 descriptors.
C12_Witness ==
    /\ call.fn = "fetch_nodes"
    /\ Len(call.args[2]) > SampleLimit
    /\ call.ret.exc = ""
    /\ \E i \in DOMAIN call.ret.val.label_info :
          /\ Contains(call.args[2][1].labels, call.ret.val.label_info[i][1])
          /\ Len(call.ret.val.label_info[i][2].relationships) = SampleLimit

\* The nodes whose records the aggregator of the recorded call folded.
Sampled == Take(call.args[2], SampleLimit)

\* The positions of the sampled nodes that carry label and have key.
Writers(label, key) ==
    {j \in DOMAIN Sampled : /\ Contains(Sampled[j].labels, label)
                            /\ HasKey(Sampled[j].props, key)}

Last(S) == CHOOSE j \in S : \A m \in S : m <= j

\* C13: in the aggregate, a label's properties hold key k exactly when
\* some sampled record carrying the label has k, and k is mapped to the
\* type inferred from its value in the last such record.
C13_LastWriterWins ==
    call.fn = "fetch_nodes"
    => \A i \in DOMAIN call.ret.val.label_info :
         LET label == call.ret.val.label_info[i][1]
             properties == call.ret.val.label_info[i][2].properties
         IN /\ \A j \in DOMAIN properties : properties[j][1] \in PropKeys
            /\ \A k \in PropKeys :
                  /\ HasKey(properties, k) <=> Writers(label, k) # {}
                  /\ Writers(label, k) # {}
                     => Get(properties, k)
                          = determine_type(Get(Sampled[Last(Writers(label, k))].props, k))

\* Two records carry the same schema label and give k values of different
\* types; the label's entry has the type of the second.
C13_Witness ==
    /\ call.fn = "fetch_nodes"
    /\ \E i \in DOMAIN call.ret.val.label_info :
          LET label == call.ret.val.label_info[i][1]
              properties == call.ret.val.label_info[i][2].properties
          IN /\ Writers(label, "k") = {1, 2}
             /\ determine_type(Get(Sampled[1].props, "k"))
                  # determine_type(Get(Sampled[2].props, "k"))
             /\ Get(properties, "k") = determine_type(Get(Sampled[2].props, "k"))

RECURSIVE Descriptors(_, _)
\* The descriptors of the records of nodes that carry label, one record
\* after the other.
Descriptors(label, nodes) ==
    IF nodes = <<>> THEN <<>>
    ELSE (IF Contains(Head(nodes).labels, label)
          THEN LET rels == SampleRecord(Head(nodes)).relationships
               IN [i \in DOMAIN rels |-> Relationship(rels[i])]
          ELSE <<>>)
         \o Descriptors(label, Tail(nodes))

\* C14: in the aggregate, a label's relationships are the descriptors of
\* the sampled records that carry the label, concatenated in sample
\* order, a descriptor that occurs in two records occurring twice.
C14_RelationshipsAreConcatenated ==
    call.fn = "fetch_nodes"
    => \A i \in DOMAIN call.ret.val.label_info :
         call.ret.val.label_info[i][2].relationships
             = Descriptors(call.ret.val.label_info[i][1], Sampled)

\* Two records carrying both schema labels come with the same descriptor,
\* which names a relationship; each label holds it twice.
C14_Witness ==
    /\ call.fn = "fetch_nodes"
    /\ Len(Sampled) = 2
    /\ Sampled[1].labels = <<"P", "C">>
    /\ Sampled[1].out # <<>>
    /\ SampleRecord(Sampled[1]).relationships = SampleRecord(Sampled[2]).relationships
    /\ Len(call.ret.val.label_info) = 2
    /\ \A i \in DOMAIN call.ret.val.label_info :
          LET relationships == call.ret.val.label_info[i][2].relationships
          IN /\ Len(relationships) = 2
             /\ relationships[1] = relationships[2]

\* C15: the aggregate's node_labels is the key sequence of its label_info
\* and is the schema's label sequence: sampling adds no label and removes
\* none.
C15_LabelsAreTheSchemaLabels ==
    call.fn = "fetch_nodes"
    => /\ call.ret.val.node_labels = Keys(call.ret.val.label_info)
       /\ call.ret.val.node_labels = Keys(call.args[1])

\* The schema has a label, and a sampled node carries a label the schema
\* lacks.
C15_Witness ==
    /\ call.fn = "fetch_nodes"
    /\ call.args[1] # <<>>
    /\ \E j \in DOMAIN Sampled :
          \E m \in DOMAIN Sampled[j].labels :
             ~HasKey(call.args[1], Sampled[j].labels[m])
    /\ call.ret.val.node_labels = Keys(call.args[1])

\* Event a occurs in the latest run, and before every occurrence of b.
Precedes(a, b) ==
    /\ Happened(a)
    /\ \A i, j \in DOMAIN Run.events :
          (Run.events[i] = a /\ Run.events[j] = b) => i < j

QueryFailed == Happened("schema_query_failed") \/ Happened("sample_query_failed")

\* C16: in a fetch cycle the sample query starts only after the schema
\* query has succeeded, and the file is touched only after both queries
\* have succeeded; a cycle one of whose queries fails to reach the store
\* runs no query twice, leaves the file as it was and answers with an
\* error.
C16_QueriesThenPersist ==
    Run.op = "get_nodes"
    => /\ Happened("sample_session_open")
          => /\ Precedes("schema_ok", "sample_session_open")
             /\ Precedes("schema_session_close", "sample_session_open")
       /\ (Happened("file_truncate") \/ Happened("file_write")
              \/ file.kind # last.before.kind)
          => /\ Precedes("schema_ok", "sample_ok")
             /\ Precedes("sample_ok", "file_truncate")
             /\ Precedes("sample_session_close", "file_truncate")
             /\ ~Happened("file_write") \/ Precedes("file_truncate", "file_write")
       /\ QueryFailed
          => /\ Count(Run.events, "driver_open") = 1
             /\ Count(Run.events, "schema_session_open") = 1
             /\ Count(Run.events, "sample_session_open") <= 1
             /\ ~Happened("file_truncate")
             /\ ~Happened("file_write")
             /\ file.kind = last.before.kind
             /\ file.doc = last.before.doc
             /\ Run.status = 500
             /\ Run.detail = "ServiceUnavailable"

\* The schema query succeeded, the sample query failed to reach the store,
\* and the file holds the aggregate it held before the cycle.
C16_Witness ==
    /\ Run.op = "get_nodes"
    /\ Precedes("schema_ok", "sample_query_failed")
    /\ last.before.kind = "json"
    /\ file.kind = "json"
    /\ Run.status = 500

\* The node groups of the schema answer the recorded call was given.
GroupsOf == call.args[1].nodes

RECURSIVE GroupLabels(_)
\* The labels of the groups, one group after the other.
GroupLabels(nodes) ==
    IF nodes = <<>> THEN <<>> ELSE Head(nodes).labels \o GroupLabels(Tail(nodes))

First(S) == CHOOSE j \in S : \A m \in S : j <= m

SchemaCall(fn) == call.fn = fn /\ call.args[1].kind = "record"

\* C17 as stated: fetch_schema, in mod_1.py and in mod_2.py, produces for
\* every node group the single key made of the group's non-null labels
\* joined with ':', and no other key.
C17_KeyedByJoinedLabels ==
    /\ SchemaCall("fetch_schema")
       => Range(Keys(call.ret.val.items[1]))
            = {LabelsKey(GroupsOf[j].labels) : j \in DOMAIN GroupsOf}
    /\ SchemaCall("fetch_schema_mod_1")
       => Range(Keys(call.ret.val.items))
            = {LabelsKey(GroupsOf[j].labels) : j \in DOMAIN GroupsOf}

\* C17 amended: fetch_schema of mod_1.py keys every group by its non-null
\* labels joined with ':', the last group of a key deciding its mapping;
\* fetch_schema of mod_2.py joins nothing and skips nothing: every label
\* of every group becomes a key of its own, in the order supplied, and
\* the first group that names a label decides its mapping.
C17_JoinedInMod1PerLabelInMod2 ==
    /\ SchemaCall("fetch_schema_mod_1")
       => LET np == call.ret.val.items
          IN /\ Keys(np) = Distinct([j \in DOMAIN GroupsOf |->
                                        LabelsKey(GroupsOf[j].labels)])
             /\ \A i \in DOMAIN np :
                   np[i][2]
                     = PropsDict(GroupsOf[Last({j \in DOMAIN GroupsOf :
                                     LabelsKey(GroupsOf[j].labels) = np[i][1]})].properties)
    /\ SchemaCall("fetch_schema")
       => LET np == call.ret.val.items[1]
          IN /\ Keys(np) = Distinct(GroupLabels(GroupsOf))
             /\ \A i \in DOMAIN np :
                   np[i][2]
                     = PropsDict(GroupsOf[First({j \in DOMAIN GroupsOf :
                                     Contains(GroupsOf[j].labels, np[i][1])})].properties)

\* fetch_schema of mod_2.py was given a group with the labels P and C and
\* a later group with the label C and other properties: the keys are P
\* and C, and C has the first group's mapping.
C17_Witness ==
    /\ SchemaCall("fetch_schema")
    /\ Len(GroupsOf) = 2
    /\ GroupsOf[1].labels = <<"P", "C">>
    /\ GroupsOf[2].labels = <<"C">>
    /\ GroupsOf[1].properties # GroupsOf[2].properties
    /\ Keys(call.ret.val.items[1]) = <<"P", "C">>
    /\ Get(call.ret.val.items[1], "C") = PropsDict(GroupsOf[1].properties)

\* C18: a fetch cycle that fails, at whatever step, leaves the aggregate
\* the file held before it: the file still loads, and loads the same
\* aggregate.
C18_FailedRefreshKeepsAggregate ==
    (Run.op = "get_nodes" /\ Run.status # 200 /\ last.before.kind = "json")
    => /\ load_data_from_file(file).exc = ""
       /\ file.kind = last.before.kind
       /\ file.doc = last.before.doc

====
